---- MODULE Spec2Model ----
(***************************************************************************)
(* A model of light-search (lsearch): the inverted-index engine            *)
(* (tokenizers.py, inverted_index.py) and the row store                    *)
(* (table_serializer.py).                                                  *)
(*                                                                         *)
(* Text is a sequence of one-character strings.  A Python dict is an       *)
(* association list, a sequence of <<key, value>> pairs in insertion       *)
(* order.  A file is a sequence: bytes (0..255) for the binary blobs, a    *)
(* stream of pickle opcodes for the .pkl files, characters for the text    *)
(* offset index.  A call's outcome is a record [kind, val]: kind is "ok"   *)
(* or the name of the exception that the call raised.                      *)
(***************************************************************************)
EXTENDS Integers, Sequences, FiniteSets, TLC

VARIABLES
    docs,       \* the collection handed to index(), <<>> before that
    built,      \* what wrote the index folder last: "none", "index", "store",
                \* or "failed" for a store_inv_index that raised
    written,    \* the grouping that was handed to store_inv_index last
    dirExists,  \* os.path.isdir(folder_store)
    fs,         \* the files of the index folder: file name -> contents
    idx,        \* the InvertedIndex instance that builds the index
    hnd,        \* the InvertedIndex instance returned by read_inv_index
    ts,         \* the TableSerializer instance
    rfs,        \* the files of the row store: "bin" and "idx" -> contents
    table,      \* the DataFrame handed to serialize or serialize_batch last
    wrote,      \* the call that wrote the row store last: "none", "serialize",
                \* "serialize_batch", or "failed" when it raised while writing
    par,        \* read_rows_parallel in progress: its locals and its tasks
    tix,        \* the TableIndexer instance, with the folders and files it wrote
    pc,         \* the caller: "idle", "parallel" inside read_rows_parallel, or
                \* "returned" with a result in ret
    ret         \* the last call: [op, on, arg, kind, val]

ivars == <<docs, built, written, dirExists, fs, idx, hnd>>

rvars == <<ts, rfs, table, wrote, par, tix>>

vars == <<ivars, rvars, pc, ret>>

-----------------------------------------------------------------------------
(* Bounds of the model *)

MaxDocs == 2
MaxCorpusWords == 3
MaxQueryLen == 3
MaxTermId == 2
MaxRows == 2
MaxPosting == 2
MaxLists == 3
MaxWorkers == 2

-----------------------------------------------------------------------------
(* Generic helpers: outcomes, association lists, bytes *)

Ok(v) == [kind |-> "ok", val |-> v]

Raise(e) == [kind |-> e, val |-> <<>>]

Has(d, k) == \E i \in 1..Len(d) : d[i][1] = k

Get(d, k) == d[CHOOSE i \in 1..Len(d) : d[i][1] = k][2]

Put(d, k, v) ==
    IF Has(d, k)
    THEN [i \in 1..Len(d) |-> IF d[i][1] = k THEN <<k, v>> ELSE d[i]]
    ELSE Append(d, <<k, v>>)

Keys(d) == [i \in 1..Len(d) |-> d[i][1]]

Range(s) == {s[i] : i \in 1..Len(s)}

RECURSIVE Flatten(_)
Flatten(ss) == IF ss = <<>> THEN <<>> ELSE Head(ss) \o Flatten(Tail(ss))

\* f.seek(pos); f.read(n): n = -1 reads to the end of the file, and no read goes
\* past it (a caller checks n >= -1: f.read raises ValueError below that)
Read(data, pos, n) ==
    LET avail == IF pos < Len(data) THEN Len(data) - pos ELSE 0
    IN  SubSeq(data, pos + 1, pos + (IF n < 0 \/ n > avail THEN avail ELSE n))

\* struct.pack of one 'i' or 'I': four bytes, little endian, two's complement
\* (\div rounds down, so the bytes of a negative number are those of n + 2^32)
Pack32(n) ==
    <<n % 256, (n \div 256) % 256, (n \div 65536) % 256, (n \div 16777216) % 256>>

\* struct.unpack of one 'I'.  A value of 2^31 or more is only ever used as a
\* number of bytes to read, so it is held at the largest number below 2^31.
UnpackU32(b) ==
    IF b[4] >= 128 THEN 2147483647
    ELSE b[1] + 256 * b[2] + 65536 * b[3] + 16777216 * b[4]

\* struct.unpack of one 'i'
UnpackI32(b) ==
    b[1] + 256 * b[2] + 65536 * b[3] + 16777216 * (IF b[4] >= 128 THEN b[4] - 256 ELSE b[4])

\* struct.pack("iii", *record)
PackRecord(r) == Pack32(r[1]) \o Pack32(r[2]) \o Pack32(r[3])

\* struct.unpack("iii", chunk)
UnpackRecord(b) ==
    <<UnpackI32(SubSeq(b, 1, 4)), UnpackI32(SubSeq(b, 5, 8)), UnpackI32(SubSeq(b, 9, 12))>>

\* struct.calcsize("iii")
RecordSize == 12

\* pickle.dump of a dict: EMPTY_DICT MARK (key value)* SETITEMS STOP
PickleDump(d) ==
    <<<<"EMPTY_DICT">>, <<"MARK">>>>
        \o Flatten([i \in 1..Len(d) |-> <<<<"KEY", d[i][1]>>, <<"VAL", d[i][2]>>>>])
        \o <<<<"SETITEMS">>, <<"STOP">>>>

\* pickle.load: the dict that the opcode stream builds
PickleLoad(p) ==
    LET n == (Len(p) - 4) \div 2
    IN  [i \in 1..n |-> <<p[2 * i + 1][2], p[2 * i + 2][2]>>]

-----------------------------------------------------------------------------
(* tokenizers.py *)

Alphabet == {"a", "B", " "}

\* str.lower()
Lower(c) == IF c = "B" THEN "b" ELSE c

\* \w of token_pattern
IsWordChar(c) == c \in {"a", "b", "B"}

RECURSIVE FindAll(_, _, _, _)
FindAll(s, i, cur, out) ==
    IF i > Len(s) THEN (IF cur = <<>> THEN out ELSE Append(out, cur))
    ELSE IF IsWordChar(s[i]) THEN FindAll(s, i + 1, Append(cur, s[i]), out)
    ELSE FindAll(s, i + 1, <<>>, IF cur = <<>> THEN out ELSE Append(out, cur))

\* tokenizer.findall(x.lower())
tokenizer_func(x) == FindAll([i \in 1..Len(x) |-> Lower(x[i])], 1, <<>>, <<>>)

RECURSIVE get_word_counts_from(_, _)
get_word_counts_from(words, counts) ==
    IF words = <<>> THEN counts
    ELSE LET w == Head(words)
         IN  get_word_counts_from(Tail(words),
                 Put(counts, w, (IF Has(counts, w) THEN Get(counts, w) ELSE 0) + 1))

get_word_counts(words) == get_word_counts_from(words, <<>>)

\* a vocabulary entry given the Term ID len(word2pos) + 1
RECURSIVE AddWords_from_one(_, _)
AddWords_from_one(words, word2pos) ==
    IF words = <<>> THEN word2pos
    ELSE LET w == Head(words)
         IN  AddWords_from_one(Tail(words),
                 IF Has(word2pos, w) THEN word2pos
                 ELSE Append(word2pos, <<w, Len(word2pos) + 1>>))

RECURSIVE AddWords(_, _)
AddWords(words, word2pos) ==
    IF words = <<>> THEN word2pos
    ELSE LET w == Head(words)
         IN  AddWords(Tail(words),
                 IF Has(word2pos, w) THEN word2pos ELSE Append(word2pos, <<w, Len(word2pos)>>))

RECURSIVE build_word2pos_from(_, _)
build_word2pos_from(ds, word2pos) ==
    IF ds = <<>> THEN word2pos
    ELSE build_word2pos_from(Tail(ds), AddWords(tokenizer_func(Head(ds)), word2pos))

build_word2pos(ds) == build_word2pos_from(ds, <<>>)

\* the loops of build_document_tuples counting, for the document frequency,
\* the occurrences in place of the documents
RECURSIVE AddFreqs_occurrences(_, _, _)
AddFreqs_occurrences(counts, j, acc) ==
    IF j > Len(counts) THEN acc
    ELSE LET w == counts[j][1]
             c == counts[j][2]
         IN  AddFreqs_occurrences(counts, j + 1,
                 [acc EXCEPT
                    !.document_frequencies =
                        Put(@, w, IF Has(@, w) THEN Get(@, w) + c ELSE c),
                    !.word_freq =
                        Put(@, w, IF Has(@, w) THEN Get(@, w) + c ELSE c)])

\* the two loops of build_document_tuples over one document's word counts
RECURSIVE AddFreqs(_, _, _)
AddFreqs(counts, j, acc) ==
    IF j > Len(counts) THEN acc
    ELSE LET w == counts[j][1]
             c == counts[j][2]
         IN  AddFreqs(counts, j + 1,
                 [acc EXCEPT
                    !.document_frequencies =
                        Put(@, w, IF Has(@, w) THEN Get(@, w) + 1 ELSE 1),
                    !.word_freq =
                        Put(@, w, IF Has(@, w) THEN Get(@, w) + c ELSE c)])

DocTuples(counts, i, word2pos) ==
    [j \in 1..Len(counts) |-> <<Get(word2pos, counts[j][1]), i, counts[j][2]>>]

RECURSIVE build_document_tuples_from(_, _, _, _)
build_document_tuples_from(ds, i, word2pos, acc) ==
    IF i >= Len(ds) THEN acc
    ELSE LET counts == get_word_counts(tokenizer_func(ds[i + 1]))
             a == AddFreqs(counts, 1, acc)
         IN  build_document_tuples_from(ds, i + 1, word2pos,
                 [a EXCEPT !.tuples = @ \o DocTuples(counts, i, word2pos)])

build_document_tuples(ds, word2pos) ==
    build_document_tuples_from(ds, 0, word2pos,
        [tuples |-> <<>>, document_frequencies |-> <<>>, word_freq |-> <<>>])

\* a sort step that is not stable: x goes in front of the elements with its key
InsertByTerm_unstable(s, x) ==
    LET p == Cardinality({i \in 1..Len(s) : s[i][1] < x[1]})
    IN  SubSeq(s, 1, p) \o <<x>> \o SubSeq(s, p + 1, Len(s))

\* one step of a stable sort by the Term ID: x goes behind every element whose
\* key is not larger
InsertByTerm(s, x) ==
    LET p == Cardinality({i \in 1..Len(s) : s[i][1] <= x[1]})
    IN  SubSeq(s, 1, p) \o <<x>> \o SubSeq(s, p + 1, Len(s))

RECURSIVE SortedByTerm(_, _)
SortedByTerm(s, acc) ==
    IF s = <<>> THEN acc ELSE SortedByTerm(Tail(s), InsertByTerm(acc, Head(s)))

get_vocabulary_and_tdf_tuples(ds) ==
    LET word2pos == build_word2pos(ds)
        b == build_document_tuples(ds, word2pos)
    IN  [word2pos |-> word2pos,
         sorted_tuples |-> SortedByTerm(b.tuples, <<>>),
         doc_freq |-> b.document_frequencies,
         word_freq |-> b.word_freq]

RECURSIVE GroupByTerm(_, _)
GroupByTerm(tuples, grouped) ==
    IF tuples = <<>> THEN grouped
    ELSE LET t == Head(tuples)
         IN  GroupByTerm(Tail(tuples),
                 Put(grouped, t[1],
                     Append(IF Has(grouped, t[1]) THEN Get(grouped, t[1]) ELSE <<>>, t)))

InsertInt(s, x) ==
    LET p == Cardinality({i \in 1..Len(s) : s[i] <= x})
    IN  SubSeq(s, 1, p) \o <<x>> \o SubSeq(s, p + 1, Len(s))

RECURSIVE SortedInts(_, _)
SortedInts(s, acc) ==
    IF s = <<>> THEN acc ELSE SortedInts(Tail(s), InsertInt(acc, Head(s)))

build_inv_index_from_tdf_tuples(tdf_tuples) ==
    LET grouped_data == GroupByTerm(tdf_tuples, <<>>)
    IN  [grouped_data |-> grouped_data,
         sorted_term_keys |-> SortedInts(Keys(grouped_data), <<>>)]

-----------------------------------------------------------------------------
(* inverted_index.py: class InvertedIndex *)

\* An instance: attrs is the set of attributes that have been assigned; reading
\* another one raises AttributeError.
NoIndex ==
    [attrs |-> {}, word2pos |-> <<>>, doc_freq |-> <<>>, word_freq |-> <<>>,
     postings_term_pointers |-> <<>>]

\* InvertedIndex.__init__
NewIndex == [NoIndex EXCEPT !.attrs = {"word2pos", "n_docs_seen"}]

\* the posting loop of store_inv_index: each key's offset is f.tell()
RECURSIVE WritePostings(_, _, _)
WritePostings(keys, grouped_data, acc) ==
    IF keys = <<>> THEN acc
    ELSE LET x == Head(keys)
             records == IF Has(grouped_data, x) THEN Get(grouped_data, x) ELSE <<>>
         IN  WritePostings(Tail(keys), grouped_data,
                 [pointers |-> Put(acc.pointers, x, Len(acc.data)),
                  data |-> acc.data
                      \o Flatten([i \in 1..Len(records) |-> PackRecord(records[i])])])

\* store_inv_index: [self, fs, out] after the call.  The files are written in the
\* order of the code; an unset word_freq or doc_freq raises after its file was
\* opened for writing.
store_inv_index(self, files, grouped_data, sorted_term_keys) ==
    LET w == WritePostings(sorted_term_keys, grouped_data, [pointers |-> <<>>, data |-> <<>>])
        self1 == [self EXCEPT !.attrs = @ \cup {"postings_term_pointers"},
                              !.postings_term_pointers = w.pointers]
        f1 == [n \in (DOMAIN files) \cup {"data_by_term.bin", "postings_term_pointers.pkl", "word2pos.pkl", "word_freq.pkl"} |->
                 CASE n = "data_by_term.bin" -> w.data
                   [] n = "postings_term_pointers.pkl" -> PickleDump(w.pointers)
                   [] n = "word2pos.pkl" -> PickleDump(self.word2pos)
                   [] n = "word_freq.pkl" ->
                        IF "word_freq" \in self.attrs THEN PickleDump(self.word_freq) ELSE <<>>
                   [] OTHER -> files[n]]
        f2 == [n \in (DOMAIN f1) \cup {"doc_freq.pkl"} |->
                 IF n = "doc_freq.pkl"
                 THEN (IF "doc_freq" \in self.attrs THEN PickleDump(self.doc_freq) ELSE <<>>)
                 ELSE f1[n]]
    IN  IF "word_freq" \notin self.attrs
        THEN [self |-> self1, fs |-> f1, out |-> Raise("AttributeError")]
        ELSE IF "doc_freq" \notin self.attrs
        THEN [self |-> self1, fs |-> f2, out |-> Raise("AttributeError")]
        ELSE [self |-> self1, fs |-> f2, out |-> Ok(<<>>)]

\* index(docs, folder_store)
index(self, files, ds) ==
    LET v == get_vocabulary_and_tdf_tuples(ds)
        self1 == [self EXCEPT !.attrs = @ \cup {"doc_freq", "word_freq"},
                              !.word2pos = v.word2pos,
                              !.doc_freq = v.doc_freq,
                              !.word_freq = v.word_freq]
        g == build_inv_index_from_tdf_tuples(v.sorted_tuples)
        s == store_inv_index(self1, files, g.grouped_data, g.sorted_term_keys)
    IN  [s EXCEPT !.self.attrs = @ \cup {"folder_store"}]

MetadataFiles ==
    <<"postings_term_pointers.pkl", "word2pos.pkl", "word_freq.pkl", "doc_freq.pkl">>

\* the body of read_inv_index, given the four paths it opens in this order:
\* the handle, or the exception of the first file that cannot be opened
\* (FileNotFoundError) or unpickled (EOFError, an empty file)
ReadMetadata(isdir, files, paths) ==
    LET bad == {i \in 1..4 : paths[i] \notin DOMAIN files \/ files[paths[i]] = <<>>}
        first == CHOOSE i \in bad : \A j \in bad : i <= j
    IN  IF ~isdir THEN [out |-> Raise("FileNotFoundError"), obj |-> NoIndex]
        ELSE IF bad # {}
        THEN [out |-> Raise(IF paths[first] \in DOMAIN files
                            THEN "EOFError" ELSE "FileNotFoundError"),
              obj |-> NoIndex]
        ELSE [out |-> Ok(<<>>),
              obj |-> [attrs |-> {"folder_store", "word2pos", "word_freq", "doc_freq",
                                  "postings_term_pointers", "n_docs_seen"},
                       postings_term_pointers |-> PickleLoad(files[paths[1]]),
                       word2pos |-> PickleLoad(files[paths[2]]),
                       word_freq |-> PickleLoad(files[paths[3]]),
                       doc_freq |-> PickleLoad(files[paths[4]])]]

\* a read_inv_index that takes word_freq and doc_freq from each other's file
read_inv_index_swapped(isdir, files) ==
    ReadMetadata(isdir, files,
        <<MetadataFiles[1], MetadataFiles[2], MetadataFiles[4], MetadataFiles[3]>>)

\* read_inv_index(folder_store)
read_inv_index(isdir, files) == ReadMetadata(isdir, files, MetadataFiles)

\* the list comprehension that decodes the bytes read, one record per 12 bytes
DecodeRecords(data) ==
    LET n == (Len(data) + RecordSize - 1) \div RecordSize
    IN  IF Len(data) % RecordSize # 0 THEN Raise("struct.error")
        ELSE Ok([i \in 1..n |->
                    UnpackRecord(SubSeq(data, (i - 1) * RecordSize + 1, i * RecordSize))])

\* f.seek(start_pos); f.read(end_pos - start_pos), decoded
ReadSpan(blob, start_pos, end_pos) ==
    IF end_pos - start_pos < -1 THEN Raise("ValueError")
    ELSE DecodeRecords(Read(blob, start_pos, end_pos - start_pos))

\* get_tuples_for_term_id(term_id)
get_tuples_for_term_id(self, files, term_id) ==
    IF "postings_term_pointers" \notin self.attrs THEN Raise("AttributeError")
    ELSE IF ~Has(self.postings_term_pointers, term_id) THEN Ok(<<>>)
    ELSE IF "folder_store" \notin self.attrs THEN Raise("AttributeError")
    ELSE IF "data_by_term.bin" \notin DOMAIN files THEN Raise("FileNotFoundError")
    ELSE LET start_pos == Get(self.postings_term_pointers, term_id)
             blob == files["data_by_term.bin"]
             n_term_pointers == Len(self.postings_term_pointers)
         IN  IF term_id + 1 < n_term_pointers
             THEN (IF ~Has(self.postings_term_pointers, term_id + 1) THEN Raise("KeyError")
                   ELSE ReadSpan(blob, start_pos,
                            Get(self.postings_term_pointers, term_id + 1)))
             ELSE ReadSpan(blob, start_pos, Len(blob))

\* keys.index(term_id): the place of term_id in the list of keys, from 0
KeyIndex(keys, term_id) ==
    (CHOOSE i \in 1..Len(keys) :
        keys[i] = term_id /\ \A j \in 1..(i - 1) : keys[j] # term_id) - 1

\* a key-scanning lookup that reads to the end of the file whatever the term
get_tuples_for_term_id_slow_to_eof(self, files, term_id) ==
    IF "postings_term_pointers" \notin self.attrs THEN Raise("AttributeError")
    ELSE IF ~Has(self.postings_term_pointers, term_id) THEN Ok(<<>>)
    ELSE IF "folder_store" \notin self.attrs THEN Raise("AttributeError")
    ELSE IF "data_by_term.bin" \notin DOMAIN files THEN Raise("FileNotFoundError")
    ELSE ReadSpan(files["data_by_term.bin"], Get(self.postings_term_pointers, term_id),
                  Len(files["data_by_term.bin"]))

\* get_tuples_for_term_id_slow(term_id): the term is the last one when its
\* place in the list of keys is the last
get_tuples_for_term_id_slow(self, files, term_id) ==
    IF "postings_term_pointers" \notin self.attrs THEN Raise("AttributeError")
    ELSE IF ~Has(self.postings_term_pointers, term_id) THEN Ok(<<>>)
    ELSE IF "folder_store" \notin self.attrs THEN Raise("AttributeError")
    ELSE IF "data_by_term.bin" \notin DOMAIN files THEN Raise("FileNotFoundError")
    ELSE LET start_pos == Get(self.postings_term_pointers, term_id)
             blob == files["data_by_term.bin"]
             keys == Keys(self.postings_term_pointers)
             curr_index == KeyIndex(keys, term_id)
         IN  IF curr_index + 1 < Len(keys)
             THEN (IF ~Has(self.postings_term_pointers, term_id + 1) THEN Raise("KeyError")
                   ELSE ReadSpan(blob, start_pos,
                            Get(self.postings_term_pointers, term_id + 1)))
             ELSE ReadSpan(blob, start_pos, Len(blob))

\* get_tuples_for_term(term)
get_tuples_for_term(self, files, term) ==
    IF ~Has(self.word2pos, term) THEN Raise("KeyError")
    ELSE get_tuples_for_term_id(self, files, Get(self.word2pos, term))

\* search_postings_for_terms(query): the first exception ends the loop
search_postings_for_terms(self, files, query) ==
    LET terms == tokenizer_func(query)
        rs == [i \in 1..Len(terms) |-> get_tuples_for_term(self, files, terms[i])]
        bad == {i \in 1..Len(terms) : rs[i].kind # "ok"}
    IN  IF bad # {} THEN rs[CHOOSE i \in bad : \A j \in bad : i <= j]
        ELSE Ok([i \in 1..Len(terms) |-> rs[i].val])

RECURSIVE intersection_from(_, _, _, _, _)
intersection_from(postings_a, postings_b, pointer_a, pointer_b, result) ==
    IF ~(pointer_a < Len(postings_a) /\ pointer_b < Len(postings_b)) THEN result
    ELSE IF postings_a[pointer_a + 1] = postings_b[pointer_b + 1]
    THEN intersection_from(postings_a, postings_b, pointer_a + 1, pointer_b + 1,
             Append(result, postings_a[pointer_a + 1]))
    ELSE IF postings_a[pointer_a + 1] < postings_b[pointer_b + 1]
    THEN intersection_from(postings_a, postings_b, pointer_a + 1, pointer_b, result)
    ELSE intersection_from(postings_a, postings_b, pointer_a, pointer_b + 1, result)

RECURSIVE intersection_gt_from(_, _, _, _, _)
intersection_gt_from(postings_a, postings_b, pointer_a, pointer_b, result) ==
    IF ~(pointer_a < Len(postings_a) /\ pointer_b < Len(postings_b)) THEN result
    ELSE IF postings_a[pointer_a + 1] = postings_b[pointer_b + 1]
    THEN intersection_gt_from(postings_a, postings_b, pointer_a + 1, pointer_b + 1,
             Append(result, postings_a[pointer_a + 1]))
    ELSE IF postings_a[pointer_a + 1] > postings_b[pointer_b + 1]
    THEN intersection_gt_from(postings_a, postings_b, pointer_a + 1, pointer_b, result)
    ELSE intersection_gt_from(postings_a, postings_b, pointer_a, pointer_b + 1, result)

\* an intersection that advances the pointer at the larger value
intersection_gt(postings_a, postings_b) ==
    intersection_gt_from(postings_a, postings_b, 0, 0, <<>>)

\* intersection(postings_a, postings_b)
intersection(postings_a, postings_b) == intersection_from(postings_a, postings_b, 0, 0, <<>>)

\* list.sort(key=len), a stable sort
InsertByLen(s, x) ==
    LET p == Cardinality({i \in 1..Len(s) : Len(s[i]) <= Len(x)})
    IN  SubSeq(s, 1, p) \o <<x>> \o SubSeq(s, p + 1, Len(s))

RECURSIVE SortedByLen(_, _)
SortedByLen(s, acc) ==
    IF s = <<>> THEN acc ELSE SortedByLen(Tail(s), InsertByLen(acc, Head(s)))

RECURSIVE IntersectRest_skip_last(_, _)
\* a loop of intersect_postings that stops one list early
IntersectRest_skip_last(result, rest) ==
    IF Len(rest) > 1
    THEN IntersectRest_skip_last(intersection(result, rest[1]), Tail(rest))
    ELSE result

RECURSIVE IntersectRest(_, _)
IntersectRest(result, rest) ==
    IF Len(rest) > 0 THEN IntersectRest(intersection(result, rest[1]), Tail(rest))
    ELSE result

\* intersect_postings(postings_lists): postings_lists_sorted[0] of an empty list
\* raises IndexError
intersect_postings(postings_lists) ==
    LET postings_lists_sorted == SortedByLen(postings_lists, <<>>)
    IN  IF postings_lists_sorted = <<>> THEN Raise("IndexError")
        ELSE Ok(IntersectRest(postings_lists_sorted[1], Tail(postings_lists_sorted)))

\* search(query)
search(self, files, query) ==
    LET p == search_postings_for_terms(self, files, query)
    IN  IF p.kind # "ok" THEN p
        ELSE intersect_postings(
                 [i \in 1..Len(p.val) |-> [j \in 1..Len(p.val[i]) |-> p.val[i][j][2]]])

-----------------------------------------------------------------------------
(* The inputs of the index operations *)

Texts(n) == UNION {[1..k -> Alphabet] : k \in 0..n}

\* the words of the documents
Words == {<<"a">>, <<"B">>}

\* the documents of exactly n words, a blank between two words
RECURSIVE WordTexts(_)
WordTexts(n) ==
    IF n = 0 THEN {<<>>}
    ELSE IF n = 1 THEN Words
    ELSE {w \o <<" ">> \o t : w \in Words, t \in WordTexts(n - 1)}

\* the sequences of exactly k documents with at most n words in all
RECURSIVE Colls(_, _)
Colls(k, n) ==
    IF k = 0 THEN {<<>>}
    ELSE UNION {UNION {{<<t>> \o c : c \in Colls(k - 1, n - m)} : t \in WordTexts(m)} :
                m \in 0..n}

Collections == UNION {Colls(k, MaxCorpusWords) : k \in 0..MaxDocs}

SmallCollections == UNION {Colls(k, 1) : k \in 0..MaxDocs}

Queries == Texts(MaxQueryLen)

\* terms as a caller passes them: the tokens of the queries, and the queries
\* that are one word as typed (upper case kept)
Terms ==
    UNION {{tokenizer_func(q)[i] : i \in 1..Len(tokenizer_func(q))} : q \in Queries}
        \cup {q \in Queries : q # <<>> /\ \A i \in 1..Len(q) : q[i] # " "}

TermIds == 0..(MaxTermId + 1)

\* the posting lists a caller may store for Term ID t
PostingChoices(t) == {<<<<t, 0, 1>>>>, <<<<t, 0, 2>>, <<t, 1, 1>>>>}

\* the groupings with ascending Term IDs in t..MaxTermId, contiguous or not
RECURSIVE Groupings(_)
Groupings(t) ==
    IF t > MaxTermId THEN {<<>>}
    ELSE Groupings(t + 1)
           \cup UNION {{<<<<t, p>>>> \o g : g \in Groupings(t + 1)} : p \in PostingChoices(t)}

-----------------------------------------------------------------------------
(* table_serializer.py *)

(* Text of the row store is a sequence of code points.  A row is a function    *)
(* from column names to values, as the dict that _read_single_row returns and  *)
(* as a row of a DataFrame; a DataFrame is its set of columns and its rows.    *)

\* str.encode('utf-8') of code points below 2048: one byte, or two
Utf8Encode(str) ==
    Flatten([i \in 1..Len(str) |->
                IF str[i] < 128 THEN <<str[i]>>
                ELSE <<192 + (str[i] \div 64), 128 + (str[i] % 64)>>])

RECURSIVE Utf8DecodeFrom(_, _, _)
Utf8DecodeFrom(b, i, out) ==
    IF i > Len(b) THEN Ok(out)
    ELSE IF b[i] < 128 THEN Utf8DecodeFrom(b, i + 1, Append(out, b[i]))
    ELSE IF b[i] \in 194..223 /\ i + 1 <= Len(b) /\ b[i + 1] \in 128..191
    THEN Utf8DecodeFrom(b, i + 2, Append(out, (b[i] - 192) * 64 + (b[i + 1] - 128)))
    ELSE Raise("UnicodeDecodeError")

\* bytes.decode('utf-8'): a byte that neither is ASCII nor starts a well-formed
\* two-byte sequence raises (no file of the model holds a longer sequence)
Utf8Decode(b) == Utf8DecodeFrom(b, 1, <<>>)

RECURSIVE SumBytes(_)
SumBytes(b) == IF b = <<>> THEN 0 ELSE Head(b) + SumBytes(Tail(b))

\* the Adler checksum that ends a zlib stream, held in one byte
Checksum(raw) == (1 + SumBytes(raw)) % 128

\* zlib.compress: the two header bytes, the data, the checksum of the data
Compress(raw) == <<120, 156>> \o raw \o <<Checksum(raw)>>

\* zlib.decompress: the data of a well-formed stream; zlib.error for bytes that
\* are empty, cut short, without the header or with a checksum that is off
Decompress(z) ==
    IF /\ Len(z) >= 3
       /\ z[1] = 120
       /\ z[2] = 156
       /\ z[Len(z)] = Checksum(SubSeq(z, 3, Len(z) - 1))
    THEN Ok(SubSeq(z, 3, Len(z) - 1))
    ELSE Raise("zlib.error")

RECURSIVE Digits(_)
\* str(n) of a natural number, as character codes
Digits(n) == IF n < 10 THEN <<48 + n>> ELSE Append(Digits(n \div 10), 48 + (n % 10))

\* str(offset) + '\n'
OffsetLine(offset) == Append(Digits(offset), 10)

RECURSIVE ParseLines(_, _, _, _)
ParseLines(text, i, cur, out) ==
    IF i > Len(text) THEN out
    ELSE IF text[i] = 10 THEN ParseLines(text, i + 1, 0, Append(out, cur))
    ELSE ParseLines(text, i + 1, 10 * cur + (text[i] - 48), out)

\* [int(line.strip()) for line in f] of an index file that serialize wrote
ParseOffsets(text) == ParseLines(text, 1, 0, <<>>)

\* the state before the constructor has run
NoSerializer ==
    [exists |-> FALSE, schema |-> <<>>, variable_length_columns |-> <<>>,
     compress |-> FALSE, columns |-> <<>>, struct_fmt |-> <<>>, record_offsets |-> <<>>]

\* a validation that looks only at the columns listed as variable-length
validate_schema_structure_listed_only(schema, variable_length_columns) ==
    LET bad == {i \in 1..Len(schema) :
                    /\ schema[i][1] \in Range(variable_length_columns)
                    /\ schema[i][2] # "str"}
        first == CHOOSE i \in bad : \A j \in bad : i <= j
    IN  IF bad # {} THEN [kind |-> "ValueError", val |-> <<schema[first][1]>>]
        ELSE Ok(<<>>)

\* _validate_schema_structure: ValueError for the first column of the schema
\* that is variable-length without 'str' or fixed-length with 'str'
validate_schema_structure(schema, variable_length_columns) ==
    LET bad == {i \in 1..Len(schema) :
                    IF schema[i][1] \in Range(variable_length_columns)
                    THEN schema[i][2] # "str"
                    ELSE schema[i][2] = "str"}
        first == CHOOSE i \in bad : \A j \in bad : i <= j
    IN  IF bad # {} THEN [kind |-> "ValueError", val |-> <<schema[first][1]>>]
        ELSE Ok(<<>>)

\* TableSerializer(bin_path, schema, variable_length_columns, compress)
TableSerializer(schema, variable_length_columns, compress) ==
    LET columns == SelectSeq(Keys(schema),
                             LAMBDA k : k \notin Range(variable_length_columns))
    IN  [exists |-> TRUE,
         schema |-> schema,
         variable_length_columns |-> variable_length_columns,
         compress |-> compress,
         columns |-> columns,
         struct_fmt |-> [i \in 1..Len(columns) |-> Get(schema, columns[i])],
         record_offsets |-> <<>>]

\* struct.calcsize(self.struct_fmt) of a format of 'i' codes
calcsize(struct_fmt) == Len(struct_fmt) * Len(Pack32(0))

\* _validate_schema(df): ValueError naming the first column of the schema that
\* the DataFrame lacks
validate_schema(self, df) ==
    LET missing == {i \in 1..Len(self.schema) : self.schema[i][1] \notin df.columns}
        first == CHOOSE i \in missing : \A j \in missing : i <= j
    IN  IF missing # {} THEN [kind |-> "ValueError", val |-> <<self.schema[first][1]>>]
        ELSE Ok(<<>>)

\* packer(*fixed_values): the fixed-length columns of a row, in schema order
PackFixed(self, row) ==
    Flatten([k \in 1..Len(self.columns) |-> Pack32(row[self.columns[k]])])

\* one variable-length field: struct.pack('I', length) and the bytes of the text
PackVar(self, str) ==
    LET raw == IF self.compress THEN Compress(Utf8Encode(str)) ELSE Utf8Encode(str)
    IN  Pack32(Len(raw)) \o raw

\* the variable-length columns of a row, in the order of variable_length_columns
PackVars(self, row) ==
    Flatten([k \in 1..Len(self.variable_length_columns) |->
                PackVar(self, row[self.variable_length_columns[k]])])

RECURSIVE SerializeRows(_, _, _, _)
\* the loop of serialize from row i on.  st holds record_offsets, the two files
\* as written so far and offset.  With fixed-length columns the first pass stops
\* at line 111, f_bin.write(packed): packed is not a name of the function.
SerializeRows(self, rows, i, st) ==
    IF i > Len(rows) THEN st
    ELSE LET st1 == [st EXCEPT !.record_offsets = Append(@, st.offset),
                               !.idx = @ \o OffsetLine(st.offset)]
             vars_bytes == PackVars(self, rows[i])
         IN  IF self.columns # <<>> THEN [st1 EXCEPT !.out = Raise("NameError")]
             ELSE SerializeRows(self, rows, i + 1,
                                [st1 EXCEPT !.bin = @ \o vars_bytes,
                                            !.offset = @ + Len(vars_bytes)])

\* serialize after _validate_schema: both files are opened for writing, which
\* empties them, and record_offsets is appended to, never reset
WriteRows(self, df) ==
    LET st == SerializeRows(self, df.rows, 1,
                            [record_offsets |-> self.record_offsets, idx |-> <<>>,
                             bin |-> <<>>, offset |-> 0, out |-> Ok(<<>>)])
    IN  [self |-> [self EXCEPT !.record_offsets = st.record_offsets],
         fs |-> [bin |-> st.bin, idx |-> st.idx],
         out |-> st.out]

\* a serialize that opens its two files before it validates the DataFrame
serialize_open_first(self, files, df) ==
    IF validate_schema(self, df).kind # "ok"
    THEN [self |-> self, fs |-> [bin |-> <<>>, idx |-> <<>>], out |-> validate_schema(self, df)]
    ELSE WriteRows(self, df)

\* serialize(df): [self, fs, out] after the call
serialize(self, files, df) ==
    IF validate_schema(self, df).kind # "ok"
    THEN [self |-> self, fs |-> files, out |-> validate_schema(self, df)]
    ELSE WriteRows(self, df)

RECURSIVE BatchRows(_, _, _, _)
\* the loop of serialize_batch from row i on: st holds the index file, buffer
\* and offset
BatchRows(self, rows, i, st) ==
    IF i > Len(rows) THEN st
    ELSE LET packed_fixed == PackFixed(self, rows[i])
             vars_bytes == PackVars(self, rows[i])
         IN  BatchRows(self, rows, i + 1,
                       [idx |-> st.idx \o OffsetLine(st.offset),
                        buffer |-> st.buffer \o packed_fixed \o vars_bytes,
                        offset |-> st.offset + Len(packed_fixed) + Len(vars_bytes)])

\* serialize_batch(df): [self, fs, out] after the call; record_offsets is left
\* as it was
serialize_batch(self, files, df) ==
    LET st == BatchRows(self, df.rows, 1, [idx |-> <<>>, buffer |-> <<>>, offset |-> 0])
    IN  IF validate_schema(self, df).kind # "ok"
        THEN [self |-> self, fs |-> files, out |-> validate_schema(self, df)]
        ELSE [self |-> self, fs |-> [bin |-> st.buffer, idx |-> st.idx], out |-> Ok(<<>>)]

\* result[col] = value
RowPut(row, col, value) ==
    [c \in (DOMAIN row) \cup {col} |-> IF c = col THEN value ELSE row[c]]

\* result.update(dict(zip(self.columns, fixed_values)))
UnpackFixed(self, fixed_bytes) ==
    [c \in Range(self.columns) |->
        LET k == CHOOSE j \in 1..Len(self.columns) : self.columns[j] = c
        IN  UnpackI32(SubSeq(fixed_bytes, 4 * k - 3, 4 * k))]

RECURSIVE ReadVars(_, _, _, _, _, _)
\* the loop over variable_length_columns from column k on, the file at cursor.
\* stop_at_end is the test "if not length_bytes: break" of _read_single_row, which
\* the two other readers do not have.
ReadVars(self, data, cursor, k, result, stop_at_end) ==
    IF k > Len(self.variable_length_columns) THEN Ok(result)
    ELSE LET length_bytes == Read(data, cursor, 4)
             length == UnpackU32(length_bytes)
             raw == Read(data, cursor + 4, length)
             plain == IF self.compress THEN Decompress(raw) ELSE Ok(raw)
             text == Utf8Decode(plain.val)
         IN  IF length_bytes = <<>> /\ stop_at_end THEN Ok(result)
             ELSE IF Len(length_bytes) < 4 THEN Raise("struct.error")
             ELSE IF plain.kind # "ok" THEN plain
             ELSE IF text.kind # "ok" THEN text
             ELSE ReadVars(self, data, cursor + 4 + Len(raw), k + 1,
                           RowPut(result, self.variable_length_columns[k], text.val),
                           stop_at_end)

\* a row read at byte pos of data: the fixed part (struct.error when fewer bytes
\* than the format are left), then the variable-length columns
ReadRowAt(self, data, pos, stop_at_end) ==
    LET fixed_size == calcsize(self.struct_fmt)
        fixed_bytes == Read(data, pos, fixed_size)
    IN  IF self.columns = <<>> THEN ReadVars(self, data, pos, 1, <<>>, stop_at_end)
        ELSE IF Len(fixed_bytes) < fixed_size THEN Raise("struct.error")
        ELSE ReadVars(self, data, pos + fixed_size, 1,
                      UnpackFixed(self, fixed_bytes), stop_at_end)

\* f.seek(pos); self._read_single_row(f)
read_single_row(self, data, pos) == ReadRowAt(self, data, pos, TRUE)

\* _load_offsets(): [self, out], out.val the list of offsets.  The index file is
\* read only while record_offsets is empty.
load_offsets(self, files) ==
    IF self.record_offsets # <<>> THEN [self |-> self, out |-> Ok(self.record_offsets)]
    ELSE IF "idx" \notin DOMAIN files THEN [self |-> self, out |-> Raise("FileNotFoundError")]
    ELSE [self |-> [self EXCEPT !.record_offsets = ParseOffsets(files["idx"])],
          out |-> Ok(ParseOffsets(files["idx"]))]

\* offsets[i] of a Python list: a negative i counts from the end
InList(offsets, i) == i >= -Len(offsets) /\ i < Len(offsets)

ListItem(offsets, i) == IF i < 0 THEN offsets[Len(offsets) + i + 1] ELSE offsets[i + 1]

\* the row that stands for None in a list of results
None == [None |-> <<>>]

\* pd.DataFrame(rows) of a list of dicts, or of the list [None] * n in part
\* filled: a None after a first dict has no keys() (AttributeError); a list
\* that starts with None becomes a frame of one column of objects
DataFrame(rows) ==
    IF rows # <<>> /\ rows[1] # None /\ None \in Range(rows)
    THEN Raise("AttributeError")
    ELSE Ok(rows)

RECURSIVE ReadRows(_, _, _, _, _, _)
\* one read per index, in order, the first exception ending the call
ReadRows(self, data, offsets, indices, i, stop_at_end) ==
    IF i > Len(indices) THEN Ok(<<>>)
    ELSE LET row == ReadRowAt(self, data, ListItem(offsets, indices[i]), stop_at_end)
             rest == ReadRows(self, data, offsets, indices, i + 1, stop_at_end)
         IN  IF ~InList(offsets, indices[i]) THEN Raise("IndexError")
             ELSE IF row.kind # "ok" THEN row
             ELSE IF rest.kind # "ok" THEN rest
             ELSE Ok(<<row.val>> \o rest.val)

\* read_rows_from_bin(indices): [self, out]
read_rows_from_bin(self, files, indices) ==
    LET l == load_offsets(self, files)
        rows == ReadRows(l.self, files["bin"], l.out.val, indices, 1, TRUE)
    IN  IF "bin" \notin DOMAIN files THEN [self |-> self, out |-> Raise("FileNotFoundError")]
        ELSE IF l.out.kind # "ok" THEN l
        ELSE IF rows.kind # "ok" THEN [self |-> l.self, out |-> rows]
        ELSE [self |-> l.self, out |-> DataFrame(rows.val)]

\* read_rows_parallel_mmap(indices, max_workers): [self, out].  record_positions
\* is built first; mmap of an empty file raises ValueError; executor.map hands
\* the rows back in the order of indices and list() raises the first exception.
read_rows_parallel_mmap(self, files, indices, max_workers) ==
    LET l == load_offsets(self, files)
        rows == ReadRows(l.self, files["bin"], l.out.val, indices, 1, FALSE)
    IN  IF l.out.kind # "ok" THEN l
        ELSE IF \E i \in 1..Len(indices) : ~InList(l.out.val, indices[i])
        THEN [self |-> l.self, out |-> Raise("IndexError")]
        ELSE IF "bin" \notin DOMAIN files THEN [self |-> l.self, out |-> Raise("FileNotFoundError")]
        ELSE IF files["bin"] = <<>> THEN [self |-> l.self, out |-> Raise("ValueError")]
        ELSE IF rows.kind # "ok" THEN [self |-> l.self, out |-> rows]
        ELSE [self |-> l.self, out |-> DataFrame(rows.val)]

\* read_rows_parallel_multiprocess(indices, max_workers): [self, out].
\* read_from_disk is local to the method, so the pool cannot pickle it: the
\* first task raises AttributeError in list(executor.map(...)).
read_rows_parallel_multiprocess(self, files, indices, max_workers) ==
    LET l == load_offsets(self, files)
    IN  IF l.out.kind # "ok" THEN l
        ELSE IF \E i \in 1..Len(indices) : ~InList(l.out.val, indices[i])
        THEN [self |-> l.self, out |-> Raise("IndexError")]
        ELSE IF indices # <<>> THEN [self |-> l.self, out |-> Raise("AttributeError")]
        ELSE [self |-> l.self, out |-> DataFrame(<<>>)]

\* read_one(i) of read_rows_parallel: the row for results[i], or the exception
\* that ends the task
read_one(self, files, offsets, indices, i) ==
    IF "bin" \notin DOMAIN files THEN Raise("FileNotFoundError")
    ELSE IF ~InList(offsets, indices[i]) THEN Raise("IndexError")
    ELSE read_single_row(self, files["bin"], ListItem(offsets, indices[i]))

\* read_rows_parallel(indices) as one step: every task fills its own position of
\* results, or leaves None there when it raises, so the frame returned does not
\* depend on the order of the tasks: [self, out]
read_rows_parallel(self, files, indices) ==
    LET l == load_offsets(self, files)
        results == [i \in 1..Len(indices) |->
                       IF read_one(l.self, files, l.out.val, indices, i).kind = "ok"
                       THEN read_one(l.self, files, l.out.val, indices, i).val
                       ELSE None]
    IN  IF l.out.kind # "ok" THEN l
        ELSE [self |-> l.self, out |-> DataFrame(results)]

\* no read_rows_parallel is in progress
NoPar ==
    [indices |-> <<>>, max_workers |-> 0, offsets |-> <<>>, task |-> <<>>, results |-> <<>>]

-----------------------------------------------------------------------------
(* Inputs of the row store *)

\* the schemas of the examples and tests, and two that the constructor rejects:
\* [schema, variable_length_columns]
Schemas ==
    {[schema |-> <<<<"title", "str">>>>, variable_length_columns |-> <<"title">>],
     [schema |-> <<<<"id", "i">>, <<"title", "str">>>>, variable_length_columns |-> <<"title">>],
     [schema |-> <<<<"id", "str">>, <<"title", "str">>>>, variable_length_columns |-> <<"title">>],
     [schema |-> <<<<"id", "i">>, <<"title", "i">>>>, variable_length_columns |-> <<"title">>],
     [schema |-> <<<<"id", "str">>, <<"title", "i">>>>, variable_length_columns |-> <<"title">>],
     [schema |-> <<<<"title", "str">>>>, variable_length_columns |-> <<>>]}

\* values of the column id: negative, and wider than one byte
IdValues == {-1, 258}

\* values of the column title: "" and "éx" (two bytes, and one byte a character)
Strings == {<<>>, <<233, 120>>}

\* the rows with the given columns
RowsOf(columns) ==
    IF columns = {"id", "title"}
    THEN {[id |-> v, title |-> s] : v \in IdValues, s \in Strings}
    ELSE IF columns = {"id"} THEN {[id |-> v] : v \in IdValues}
    ELSE IF columns = {"title"} THEN {[title |-> s] : s \in Strings}
    ELSE {<<>>}

\* the DataFrames with the given columns and up to n rows
Frames(columns, n) ==
    {[columns |-> columns, rows |-> r] :
        r \in UNION {[1..k -> RowsOf(columns)] : k \in 0..n}}

\* what a caller hands to serialize: a DataFrame with every column of the
\* schema, or one of a single row that lacks some
DataFrames ==
    UNION {Frames(c, IF c = Range(Keys(ts.schema)) THEN MaxRows ELSE 1) :
              c \in SUBSET {"id", "title"}}

\* the lists of row numbers a caller asks for: in range, past the end of a
\* table of fewer than MaxRows rows, or negative
IndexLists == UNION {[1..k -> -1..(MaxRows - 1)] : k \in 0..MaxRows}

\* the reads between two writes: of no row, and of the first row
LoadingReads == {<<>>, <<0>>}

-----------------------------------------------------------------------------
(* The index operations as actions of a single-threaded caller *)

NoRet == [op |-> "none", on |-> "none", arg |-> <<>>, kind |-> "none", val |-> <<>>]

Returned(op, on, arg, out) ==
    [op |-> op, on |-> on, arg |-> arg, kind |-> out.kind, val |-> out.val]

Instance(on) == IF on = "idx" THEN idx ELSE hnd

\* the instances a caller holds
Held == {on \in {"idx", "hnd"} : Instance(on).attrs # {}}

InitIdx ==
    /\ docs = <<>>
    /\ built = "none"
    /\ written = <<>>
    /\ dirExists = FALSE
    /\ fs = <<>>
    /\ idx = NewIndex
    /\ hnd = NoIndex

NoTable == [columns |-> {}, rows |-> <<>>]

\* the state before the constructor of TableIndexer has run: no attribute set
NoTableIndexer ==
    [attrs |-> {}, schema |-> <<>>, variable_length_columns |-> <<>>,
     indices |-> <<>>, folders |-> <<>>, table_ser |-> NoSerializer, files |-> <<>>,
     df |-> NoTable]

InitRow ==
    /\ ts = NoSerializer
    /\ rfs = <<>>
    /\ table = NoTable
    /\ wrote = "none"
    /\ par = NoPar
    /\ tix = NoTableIndexer

Init ==
    /\ InitIdx
    /\ InitRow
    /\ pc = "idle"
    /\ ret = NoRet

\* idx.index(d): one collection per run, which may be indexed again
Index(d) ==
    /\ pc = "idle"
    /\ built = "none" \/ d = docs
    /\ LET s == index(idx, fs, d)
       IN  /\ idx' = s.self
           /\ fs' = s.fs
           /\ ret' = Returned("index", "idx", d, s.out)
    /\ docs' = d
    /\ built' = "index"
    /\ written' = build_inv_index_from_tdf_tuples(
                      get_vocabulary_and_tdf_tuples(d).sorted_tuples).grouped_data
    /\ dirExists' = TRUE
    /\ pc' = "returned"
    /\ UNCHANGED <<hnd, rvars>>

\* idx.store_inv_index(folder, g, keys of g) called directly with a grouping
StoreInvIndex(g) ==
    /\ pc = "idle"
    /\ LET s == store_inv_index(idx, fs, g, Keys(g))
       IN  /\ idx' = s.self
           /\ fs' = s.fs
           /\ ret' = Returned("store_inv_index", "idx", g, s.out)
           /\ built' = IF s.out.kind = "ok" THEN "store" ELSE "failed"
    /\ written' = g
    /\ dirExists' = TRUE
    /\ pc' = "returned"
    /\ UNCHANGED <<docs, hnd, rvars>>

\* hnd = InvertedIndex.read_inv_index(folder)
ReadInvIndex ==
    /\ pc = "idle"
    /\ LET r == read_inv_index(dirExists, fs)
       IN  /\ hnd' = IF r.out.kind = "ok" THEN r.obj ELSE hnd
           /\ ret' = Returned("read_inv_index", "hnd", built, r.out)
    /\ pc' = "returned"
    /\ UNCHANGED <<docs, built, written, dirExists, fs, idx, rvars>>

GetTuplesForTerm(on, term) ==
    /\ pc = "idle"
    /\ on \in Held
    /\ ret' = Returned("get_tuples_for_term", on, term,
                       get_tuples_for_term(Instance(on), fs, term))
    /\ pc' = "returned"
    /\ UNCHANGED <<ivars, rvars>>

GetTuplesForTermId(on, term_id) ==
    /\ pc = "idle"
    /\ on \in Held
    /\ ret' = Returned("get_tuples_for_term_id", on, term_id,
                       get_tuples_for_term_id(Instance(on), fs, term_id))
    /\ pc' = "returned"
    /\ UNCHANGED <<ivars, rvars>>

GetTuplesForTermIdSlow(on, term_id) ==
    /\ pc = "idle"
    /\ on \in Held
    /\ ret' = Returned("get_tuples_for_term_id_slow", on, term_id,
                       get_tuples_for_term_id_slow(Instance(on), fs, term_id))
    /\ pc' = "returned"
    /\ UNCHANGED <<ivars, rvars>>

Search(on, query) ==
    /\ pc = "idle"
    /\ on \in Held
    /\ ret' = Returned("search", on, query, search(Instance(on), fs, query))
    /\ pc' = "returned"
    /\ UNCHANGED <<ivars, rvars>>

\* the caller takes the result and goes on to its next call
Consume ==
    /\ pc = "returned"
    /\ pc' = "idle"
    /\ ret' = NoRet
    /\ UNCHANGED <<ivars, rvars>>

NextIdx ==
    \/ \E d \in Collections : Index(d)
    \/ ReadInvIndex
    \/ \E on \in {"idx", "hnd"}, term \in Terms : GetTuplesForTerm(on, term)
    \/ \E on \in {"idx", "hnd"}, t \in TermIds : GetTuplesForTermId(on, t)
    \/ \E on \in {"idx", "hnd"}, t \in TermIds : GetTuplesForTermIdSlow(on, t)
    \/ \E on \in {"idx", "hnd"}, q \in Queries : Search(on, q)
    \/ Consume

\* index(docs), then queries on the builder and on the handle read back
SpecIdx == Init /\ [][NextIdx]_vars

NextStore ==
    \/ \E d \in SmallCollections : Index(d)
    \/ \E g \in Groupings(0) : StoreInvIndex(g)
    \/ ReadInvIndex
    \/ \E on \in {"idx", "hnd"}, t \in TermIds : GetTuplesForTermId(on, t)
    \/ Consume

\* store_inv_index called with groupings of the caller's own
SpecStore == Init /\ [][NextStore]_vars

-----------------------------------------------------------------------------
(* The row store operations as actions of the caller, and the worker threads   *)
(* of read_rows_parallel                                                       *)

\* TableSerializer(path, schema, variable_length_columns, compress): the
\* constructor raises before the caller holds an instance
Construct(sc, compress) ==
    /\ pc = "idle"
    /\ ~ts.exists
    /\ LET v == validate_schema_structure(sc.schema, sc.variable_length_columns)
       IN  /\ ts' = IF v.kind = "ok"
                    THEN TableSerializer(sc.schema, sc.variable_length_columns, compress)
                    ELSE ts
           /\ ret' = Returned("TableSerializer", "ts", sc, v)
    /\ pc' = "returned"
    /\ UNCHANGED <<ivars, tix, rfs, table, wrote, par>>

\* ts.serialize(df); record_offsets grows with every call, up to MaxRows + 1
Serialize(df) ==
    /\ pc = "idle"
    /\ ts.exists
    /\ Len(ts.record_offsets) + Len(df.rows) <= MaxRows + 1
    /\ LET s == serialize(ts, rfs, df)
       IN  /\ ts' = s.self
           /\ rfs' = s.fs
           /\ ret' = Returned("serialize", "ts", df, s.out)
           /\ table' = IF s.out.kind = "ValueError" THEN table ELSE df
           /\ wrote' = IF s.out.kind = "ValueError" THEN wrote
                       ELSE IF s.out.kind = "ok" THEN "serialize" ELSE "failed"
    /\ pc' = "returned"
    /\ UNCHANGED <<ivars, tix, par>>

\* ts.serialize_batch(df)
SerializeBatch(df) ==
    /\ pc = "idle"
    /\ ts.exists
    /\ LET s == serialize_batch(ts, rfs, df)
       IN  /\ ts' = s.self
           /\ rfs' = s.fs
           /\ ret' = Returned("serialize_batch", "ts", df, s.out)
           /\ table' = IF s.out.kind = "ValueError" THEN table ELSE df
           /\ wrote' = IF s.out.kind = "ValueError" THEN wrote ELSE "serialize_batch"
    /\ pc' = "returned"
    /\ UNCHANGED <<ivars, tix, par>>

\* ts.read_rows_from_bin(indices)
ReadRowsFromBin(indices) ==
    /\ pc = "idle"
    /\ ts.exists
    /\ LET r == read_rows_from_bin(ts, rfs, indices)
       IN  /\ ts' = r.self
           /\ ret' = Returned("read_rows_from_bin", "ts", indices, r.out)
    /\ pc' = "returned"
    /\ UNCHANGED <<ivars, tix, rfs, table, wrote, par>>

\* ts.read_rows_parallel_mmap(indices, max_workers)
ReadRowsParallelMmap(indices, max_workers) ==
    /\ pc = "idle"
    /\ ts.exists
    /\ LET r == read_rows_parallel_mmap(ts, rfs, indices, max_workers)
       IN  /\ ts' = r.self
           /\ ret' = Returned("read_rows_parallel_mmap", "ts", indices, r.out)
    /\ pc' = "returned"
    /\ UNCHANGED <<ivars, tix, rfs, table, wrote, par>>

\* ts.read_rows_parallel_multiprocess(indices, max_workers)
ReadRowsParallelMultiprocess(indices, max_workers) ==
    /\ pc = "idle"
    /\ ts.exists
    /\ LET r == read_rows_parallel_multiprocess(ts, rfs, indices, max_workers)
       IN  /\ ts' = r.self
           /\ ret' = Returned("read_rows_parallel_multiprocess", "ts", indices, r.out)
    /\ pc' = "returned"
    /\ UNCHANGED <<ivars, tix, rfs, table, wrote, par>>

\* ts.read_rows_parallel(indices, max_workers) up to executor.map: the offsets
\* are loaded, results is [None] * len(indices) and every read_one(i) is queued
ParallelStart(indices, max_workers) ==
    /\ pc = "idle"
    /\ ts.exists
    /\ LET l == load_offsets(ts, rfs)
       IN  /\ ts' = l.self
           /\ IF l.out.kind # "ok"
              THEN /\ pc' = "returned"
                   /\ ret' = Returned("read_rows_parallel", "ts", indices, l.out)
                   /\ par' = par
              ELSE /\ pc' = "parallel"
                   /\ ret' = ret
                   /\ par' = [indices |-> indices,
                              max_workers |-> max_workers,
                              offsets |-> l.out.val,
                              task |-> [i \in 1..Len(indices) |-> "queued"],
                              results |-> [i \in 1..Len(indices) |-> None]]
    /\ UNCHANGED <<ivars, tix, rfs, table, wrote>>

\* a free worker thread takes the next task off the queue of the executor
WorkerTakes(i) ==
    /\ pc = "parallel"
    /\ i \in 1..Len(par.task)
    /\ par.task[i] = "queued"
    /\ \A j \in 1..(i - 1) : par.task[j] # "queued"
    /\ Cardinality({j \in 1..Len(par.task) : par.task[j] = "running"}) < par.max_workers
    /\ par' = [par EXCEPT !.task[i] = "running"]
    /\ UNCHANGED <<ivars, tix, ts, rfs, table, wrote, pc, ret>>

\* the worker runs read_one(i): results[i] is set, or the exception stays in the
\* future of the task, which nothing asks for its result
WorkerReads(i) ==
    /\ pc = "parallel"
    /\ i \in 1..Len(par.task)
    /\ par.task[i] = "running"
    /\ LET r == read_one(ts, rfs, par.offsets, par.indices, i)
       IN  par' = IF r.kind = "ok"
                  THEN [par EXCEPT !.task[i] = "done", !.results[i] = r.val]
                  ELSE [par EXCEPT !.task[i] = "failed"]
    /\ UNCHANGED <<ivars, tix, ts, rfs, table, wrote, pc, ret>>

\* the with block ends when every task has ended: return pd.DataFrame(results)
ParallelReturn ==
    /\ pc = "parallel"
    /\ \A i \in 1..Len(par.task) : par.task[i] \in {"done", "failed"}
    /\ ret' = Returned("read_rows_parallel", "ts", par.indices, DataFrame(par.results))
    /\ pc' = "returned"
    /\ par' = NoPar
    /\ UNCHANGED <<ivars, tix, ts, rfs, table, wrote>>

NextRow ==
    \/ \E sc \in Schemas, compress \in BOOLEAN : Construct(sc, compress)
    \/ \E df \in DataFrames : Serialize(df)
    \/ \E df \in DataFrames : SerializeBatch(df)
    \/ \E indices \in IndexLists : ReadRowsFromBin(indices)
    \/ \E indices \in IndexLists, w \in 1..MaxWorkers : ReadRowsParallelMmap(indices, w)
    \/ \E indices \in IndexLists, w \in 1..MaxWorkers : ReadRowsParallelMultiprocess(indices, w)
    \/ \E indices \in IndexLists, w \in 1..MaxWorkers : ParallelStart(indices, w)
    \/ \E i \in 1..MaxRows : WorkerTakes(i)
    \/ \E i \in 1..MaxRows : WorkerReads(i)
    \/ ParallelReturn
    \/ Consume

\* one TableSerializer: writes, and reads by the four strategies
SpecRow == Init /\ [][NextRow]_vars

NextSer ==
    \/ \E sc \in Schemas, compress \in BOOLEAN : Construct(sc, compress)
    \/ \E df \in DataFrames : Serialize(df)
    \/ \E df \in DataFrames : SerializeBatch(df)
    \/ \E indices \in LoadingReads : ReadRowsFromBin(indices)
    \/ Consume

\* one TableSerializer: writes, and the sequential read that loads the offsets
SpecSer == Init /\ [][NextSer]_vars

-----------------------------------------------------------------------------
(* What the index claims speak of, computed from the documents alone *)

TokensOf(text) == {tokenizer_func(text)[i] : i \in 1..Len(tokenizer_func(text))}

Vocabulary == UNION {TokensOf(docs[i]) : i \in 1..Len(docs)}

\* the number of occurrences of term in the document with Doc ID d
Occurrences(term, d) ==
    Cardinality({i \in 1..Len(tokenizer_func(docs[d + 1])) : tokenizer_func(docs[d + 1])[i] = term})

DocsWith(term) == {d \in 0..(Len(docs) - 1) : term \in TokensOf(docs[d + 1])}

\* the Doc IDs of the documents that contain every token of the query
Matching(query) == {d \in 0..(Len(docs) - 1) : TokensOf(query) \subseteq TokensOf(docs[d + 1])}

StrictlyAscending(s) == \A i \in 1..(Len(s) - 1) : s[i] < s[i + 1]

\* a call of op has just returned on an index that index() built
ReturnedOnIndex(op) == pc = "returned" /\ ret.op = op /\ built = "index"

-----------------------------------------------------------------------------
(* What the row store claims speak of *)

SchemaColumns == Range(Keys(ts.schema))

\* row number n of the table written last, its columns those of the schema
RowOfTable(n) == [c \in SchemaColumns |-> table.rows[n + 1][c]]

\* the table written last is complete on disk
CompletelyWritten == wrote \in {"serialize", "serialize_batch"}

InRangeOfTable(indices) ==
    \A i \in 1..Len(indices) : indices[i] >= 0 /\ indices[i] < Len(table.rows)

\* the rows of the table written last at the row numbers asked for
RowsAsked(indices) == [i \in 1..Len(indices) |-> RowOfTable(indices[i])]

\* a read by op has just returned, with in-range row numbers, on a store that
\* the call named by wrote has written completely
ReturnedRead(op) ==
    /\ pc = "returned"
    /\ ret.op = op
    /\ CompletelyWritten
    /\ InRangeOfTable(ret.arg)

\* the first column of the schema that the DataFrame lacks
FirstMissing(schema, columns) ==
    schema[CHOOSE i \in 1..Len(schema) :
              /\ schema[i][1] \notin columns
              /\ \A j \in 1..(i - 1) : schema[j][1] \in columns][1]

\* the cached offsets are those of the index file
OffsetsFresh == ts.record_offsets \in {<<>>, ParseOffsets(rfs["idx"])}

-----------------------------------------------------------------------------
(* Claims *)

\* C1: on an index built by index(docs), search(query) of a non-empty query
\* whose tokens are all in the vocabulary returns exactly the Doc IDs of the
\* documents that contain every query token, strictly ascending.
C1_SearchIsAnd ==
    (/\ ReturnedOnIndex("search")
     /\ TokensOf(ret.arg) # {}
     /\ TokensOf(ret.arg) \subseteq Vocabulary)
        => /\ ret.kind = "ok"
           /\ StrictlyAscending(ret.val)
           /\ Range(ret.val) = Matching(ret.arg)

\* C1's case: a query of two terms, on the handle read back, that one document
\* matches and that another document, which has one of the terms, does not
C1_Witness ==
    /\ ReturnedOnIndex("search")
    /\ ret.on = "hnd"
    /\ Cardinality(TokensOf(ret.arg)) = 2
    /\ TokensOf(ret.arg) \subseteq Vocabulary
    /\ ret.kind = "ok"
    /\ Len(ret.val) = 1
    /\ \E d \in 0..(Len(docs) - 1) :
         d \notin Range(ret.val) /\ TokensOf(docs[d + 1]) \cap TokensOf(ret.arg) # {}

\* C2: a lookup by text of a term that is not in the vocabulary returns an empty
\* posting list, and a search with a term never seen at index time returns an
\* empty result; neither raises.
C2_AbsentTermIsEmpty ==
    (/\ pc = "returned"
     /\ built = "index"
     /\ \/ ret.op = "get_tuples_for_term" /\ ret.arg \notin Vocabulary
        \/ ret.op = "search" /\ ~(TokensOf(ret.arg) \subseteq Vocabulary))
        => ret.kind = "ok" /\ ret.val = <<>>

\* C3: search of a query that tokenizes to no terms returns an empty result and
\* does not raise.
C3_EmptyQueryIsEmpty ==
    (ReturnedOnIndex("search") /\ tokenizer_func(ret.arg) = <<>>)
        => ret.kind = "ok" /\ ret.val = <<>>

\* C4: after store_inv_index wrote a grouping with ascending Term IDs, contiguous
\* or not, get_tuples_for_term_id(t) of a t in the directory returns exactly the
\* postings written for t.
C4_LookupReadsOwnSpan ==
    (/\ pc = "returned"
     /\ ret.op = "get_tuples_for_term_id"
     /\ ret.on = "idx"
     /\ built = "store"
     /\ Has(idx.postings_term_pointers, ret.arg))
        => ret.kind = "ok" /\ ret.val = Get(written, ret.arg)

\* C8: the handle that read_inv_index returns on the folder written by index(D)
\* has the word2pos, doc_freq and word_freq maps and the term offset directory
\* of the instance that built it.
C8_ReadBackEqualsBuilt ==
    ReturnedOnIndex("read_inv_index")
        => /\ ret.kind = "ok"
           /\ hnd.word2pos = idx.word2pos
           /\ hnd.doc_freq = idx.doc_freq
           /\ hnd.word_freq = idx.word_freq
           /\ hnd.postings_term_pointers = idx.postings_term_pointers

\* C8's case: a handle read back whose two frequency maps differ
C8_Witness ==
    /\ ReturnedOnIndex("read_inv_index")
    /\ ret.kind = "ok"
    /\ Len(hnd.word2pos) = 2
    /\ hnd.word_freq # hnd.doc_freq

\* C9: on an index built by index(docs), the posting list of a term of the
\* vocabulary is one triple (Term ID, Doc ID, occurrences in that document) per
\* document that contains the term, Doc IDs strictly ascending.
C9_PostingListOfTerm ==
    (ReturnedOnIndex("get_tuples_for_term") /\ ret.arg \in Vocabulary)
        => /\ ret.kind = "ok"
           /\ Len(ret.val) = Cardinality(DocsWith(ret.arg))
           /\ StrictlyAscending([i \in 1..Len(ret.val) |-> ret.val[i][2]])
           /\ \A i \in 1..Len(ret.val) :
                /\ ret.val[i][2] \in DocsWith(ret.arg)
                /\ ret.val[i][1] = Get(Instance(ret.on).word2pos, ret.arg)
                /\ ret.val[i][3] = Occurrences(ret.arg, ret.val[i][2])

\* C9's case: a term of two documents that is not the first term of the vocabulary
C9_Witness ==
    /\ ReturnedOnIndex("get_tuples_for_term")
    /\ ret.kind = "ok"
    /\ Len(ret.val) = 2
    /\ ret.val[1][1] >= 1

\* C5: for a schema that mixes fixed-width and variable-length columns, with
\* compress True or False, serialize(df) of a table with every column succeeds
\* and read_rows_from_bin of in-range row numbers, in any order, then returns
\* exactly the rows of df at those numbers, in the order asked.
C5_MixedRoundTrip ==
    /\ (/\ pc = "returned"
        /\ ret.op = "serialize"
        /\ ts.columns # <<>>
        /\ ts.variable_length_columns # <<>>
        /\ SchemaColumns \subseteq ret.arg.columns)
           => ret.kind = "ok"
    /\ (/\ ReturnedRead("read_rows_from_bin")
        /\ wrote = "serialize"
        /\ ts.columns # <<>>
        /\ ts.variable_length_columns # <<>>)
           => ret.kind = "ok" /\ ret.val = RowsAsked(ret.arg)

\* C6: on a completely written row store, for in-range row numbers, every
\* max_workers and every order in which the worker threads take and end their
\* tasks, read_rows_parallel returns what read_rows_from_bin returns, position i
\* holding row indices[i] of the table.
C6_ParallelEqualsSequential ==
    ReturnedRead("read_rows_parallel")
        => /\ ret.kind = "ok"
           /\ ret.val = RowsAsked(ret.arg)
           /\ read_rows_from_bin(ts, rfs, ret.arg).out = [kind |-> ret.kind, val |-> ret.val]

\* The part of C6 that is about the threads: while the cached offsets are those
\* of the index file, read_rows_parallel returns the rows asked for, as
\* read_rows_from_bin does, whatever the schedule of the workers.
ParallelEqualsSequentialOnFreshOffsets ==
    (ReturnedRead("read_rows_parallel") /\ OffsetsFresh)
        => /\ ret.kind = "ok"
           /\ ret.val = RowsAsked(ret.arg)
           /\ read_rows_from_bin(ts, rfs, ret.arg).out = [kind |-> ret.kind, val |-> ret.val]

\* C7: on a completely written row store, for in-range row numbers,
\* read_rows_parallel_mmap and read_rows_parallel_multiprocess each return what
\* read_rows_from_bin returns for the same list: same rows, values and order.
C7_StrategiesEqualSequential ==
    (ReturnedRead("read_rows_parallel_mmap") \/ ReturnedRead("read_rows_parallel_multiprocess"))
        => read_rows_from_bin(ts, rfs, ret.arg).out = [kind |-> ret.kind, val |-> ret.val]

\* C10: serialize(df) of a table that lacks a column of the schema raises
\* ValueError naming the first missing column and leaves the row blob file, the
\* offset index file and the cached offset list exactly as they were.
C10_MissingColumnWritesNothing ==
    [][(/\ pc = "idle"
        /\ pc' = "returned"
        /\ ret'.op = "serialize"
        /\ ~(SchemaColumns \subseteq ret'.arg.columns))
           => /\ ret'.kind = "ValueError"
              /\ ret'.val = <<FirstMissing(ts.schema, ret'.arg.columns)>>
              /\ rfs' = rfs
              /\ ts'.record_offsets = ts.record_offsets]_vars

\* C10's case: a table without the two columns of the schema, handed to an
\* instance whose files and cached offsets hold rows
C10_Witness ==
    /\ pc = "returned"
    /\ ret.op = "serialize"
    /\ ret.kind = "ValueError"
    /\ Len(ts.schema) = 2
    /\ ret.arg.columns = {}
    /\ ret.val = <<"id">>
    /\ ts.record_offsets # <<>>
    /\ "bin" \in DOMAIN rfs
    /\ rfs["bin"] # <<>>
    /\ rfs["idx"] # <<>>

\* the persisted artifacts of a store: the postings blob and the four maps
Artifacts == {"data_by_term.bin"} \cup Range(MetadataFiles)

\* C11: read_inv_index raises FileNotFoundError whenever the folder does not
\* exist or one of the five persisted artifacts of the store is missing.
C11_IncompleteStoreNotFound ==
    (/\ pc = "returned"
     /\ ret.op = "read_inv_index"
     /\ (~dirExists \/ \E n \in Artifacts : n \notin DOMAIN fs))
        => ret.kind = "FileNotFoundError"

-----------------------------------------------------------------------------
(* intersection and intersect_postings on lists of the caller's own *)

\* the strictly ascending lists of Doc IDs in 0..MaxPosting
RECURSIVE AscendingFrom(_)
AscendingFrom(d) ==
    IF d > MaxPosting THEN {<<>>}
    ELSE AscendingFrom(d + 1) \cup {<<d>> \o l : l \in AscendingFrom(d + 1)}

PostingLists == AscendingFrom(0)

\* the lists of posting lists handed to intersect_postings, the empty one too
ListsOfPostings == UNION {[1..k -> PostingLists] : k \in 0..MaxLists}

\* idx.intersection(postings_a, postings_b)
Intersection(postings_a, postings_b) ==
    /\ pc = "idle"
    /\ ret' = Returned("intersection", "idx", <<postings_a, postings_b>>,
                       Ok(intersection(postings_a, postings_b)))
    /\ pc' = "returned"
    /\ UNCHANGED <<ivars, rvars>>

\* idx.intersect_postings(postings_lists)
IntersectPostings(postings_lists) ==
    /\ pc = "idle"
    /\ ret' = Returned("intersect_postings", "idx", postings_lists,
                       intersect_postings(postings_lists))
    /\ pc' = "returned"
    /\ UNCHANGED <<ivars, rvars>>

NextInt ==
    \/ pc = "idle" /\ \E a \in PostingLists, b \in PostingLists : Intersection(a, b)
    \/ pc = "idle" /\ \E ls \in ListsOfPostings : IntersectPostings(ls)
    \/ Consume

\* the two intersection methods applied to every input within the bounds
SpecInt == Init /\ [][NextInt]_vars

\* the elements common to every list of ls
CommonTo(ls) == {d \in 0..MaxPosting : \A i \in 1..Len(ls) : d \in Range(ls[i])}

\* C12: for strictly ascending lists A and B, empty ones too, intersection(A, B)
\* is the ascending list of exactly the common elements and equals
\* intersection(B, A); intersect_postings of a non-empty list of such lists is
\* the ascending list of the elements common to all, whatever their order.
C12_IntersectionIsSetIntersection ==
    /\ (pc = "returned" /\ ret.op = "intersection")
         => /\ ret.kind = "ok"
            /\ StrictlyAscending(ret.val)
            /\ Range(ret.val) = Range(ret.arg[1]) \cap Range(ret.arg[2])
            /\ ret.val = intersection(ret.arg[2], ret.arg[1])
    /\ (pc = "returned" /\ ret.op = "intersect_postings" /\ ret.arg # <<>>)
         => /\ ret.kind = "ok"
            /\ StrictlyAscending(ret.val)
            /\ Range(ret.val) = CommonTo(ret.arg)

\* C12's case: three lists given longest first, with a common element and with
\* an element that only the first two share
C12_Witness ==
    /\ pc = "returned"
    /\ ret.op = "intersect_postings"
    /\ Len(ret.arg) = 3
    /\ Len(ret.arg[1]) > Len(ret.arg[2])
    /\ Len(ret.arg[2]) > Len(ret.arg[3])
    /\ ret.kind = "ok"
    /\ ret.val # <<>>
    /\ Range(ret.arg[1]) \cap Range(ret.arg[2]) # Range(ret.val)

-----------------------------------------------------------------------------
(* Claims about reads of the row store *)

ReadOps ==
    {"read_rows_from_bin", "read_rows_parallel", "read_rows_parallel_mmap",
     "read_rows_parallel_multiprocess"}

\* the number of rows in the offset index file
RowsInIndex == Len(ParseOffsets(rfs["idx"]))

\* C13: a read that asks for a row number outside 0..n-1, n the number of rows
\* in the offset index, negative numbers included, fails with IndexError under
\* every read strategy; it returns no other row and no placeholder row.
C13_OutOfRangeFails ==
    (/\ pc = "returned"
     /\ ret.op \in ReadOps
     /\ "idx" \in DOMAIN rfs
     /\ OffsetsFresh
     /\ \E i \in 1..Len(ret.arg) : ret.arg[i] < 0 \/ ret.arg[i] >= RowsInIndex)
        => ret.kind = "IndexError"

RECURSIVE MalformedFrom(_, _, _, _)
\* from variable-length column k on, the file at cursor: a length prefix is cut
\* short by the end of the file, or it announces more bytes than remain
MalformedFrom(self, data, cursor, k) ==
    IF k > Len(self.variable_length_columns) THEN FALSE
    ELSE LET length_bytes == Read(data, cursor, 4)
         IN  \/ Len(length_bytes) < 4
             \/ UnpackU32(length_bytes) > Len(data) - cursor - 4
             \/ MalformedFrom(self, data, cursor + 4 + UnpackU32(length_bytes), k + 1)

\* the record at byte pos has its fixed part, and a malformed variable part
Malformed(self, data, pos) ==
    /\ Len(Read(data, pos, calcsize(self.struct_fmt))) = calcsize(self.struct_fmt)
    /\ MalformedFrom(self, data, pos + calcsize(self.struct_fmt), 1)

\* C14: when the record of a row asked for is malformed, a length prefix missing
\* at the end of the file or announcing more bytes than remain, the read raises;
\* it returns no row with a truncated string or without a declared column,
\* with compress True and False.
C14_MalformedRecordFails ==
    (/\ pc = "returned"
     /\ ret.op = "read_rows_from_bin"
     /\ "bin" \in DOMAIN rfs
     /\ \A i \in 1..Len(ret.arg) : InList(ts.record_offsets, ret.arg[i])
     /\ \E i \in 1..Len(ret.arg) :
          Malformed(ts, rfs["bin"], ListItem(ts.record_offsets, ret.arg[i])))
        => ret.kind # "ok"

-----------------------------------------------------------------------------
(* table_indexer.py *)

\* ord(c) of a character of the index texts
CodePoint(c) == CASE c = "a" -> 97 [] c = "b" -> 98 [] c = "B" -> 66 [] OTHER -> 32

CodePoints(text) == [i \in 1..Len(text) |-> CodePoint(text[i])]

\* a row of the DataFrame as the serializer sees it
RowCodePoints(row) == [c \in DOMAIN row |-> CodePoints(row[c])]

\* the DataFrame as the serializer sees it
FrameCodePoints(df) ==
    [columns |-> df.columns, rows |-> [n \in 1..Len(df.rows) |-> RowCodePoints(df.rows[n])]]

\* df[col]: the documents of one column, in row order
Column(df, col) == [n \in 1..Len(df.rows) |-> df.rows[n][col]]

\* TableIndexer(bin_path, schema, variable_length_columns): the schema is not
\* validated here
TableIndexer(schema, variable_length_columns) ==
    [NoTableIndexer EXCEPT !.attrs = {"schema"},
                           !.schema = schema,
                           !.variable_length_columns = variable_length_columns]

\* self.indices[col] = inv_index, with the files its folder now holds
PutIndex(self, col, r) ==
    [self EXCEPT !.indices = Put(@, col, r.self), !.folders = Put(@, col, r.fs)]

\* the files of the folder 'inv_index_' + col
FolderOf(self, col) == IF Has(self.folders, col) THEN Get(self.folders, col) ELSE <<>>

RECURSIVE BuildIndices(_, _, _, _)
\* the loop of TableIndexer.index from index_cols[k] on: one InvertedIndex a
\* column, stored in the folder 'inv_index_' + col
BuildIndices(self, df, index_cols, k) ==
    IF k > Len(index_cols) THEN self
    ELSE BuildIndices(PutIndex(self, index_cols[k],
                               index(NewIndex, FolderOf(self, index_cols[k]),
                                     Column(df, index_cols[k]))),
                      df, index_cols, k + 1)

\* table_ser.serialize(df) has run with outcome s: _table_ser is set only when
\* it returned
KeepSerializer(self, s) ==
    IF s.out.kind # "ok" THEN [self |-> [self EXCEPT !.files = s.fs], out |-> s.out]
    ELSE [self |-> [self EXCEPT !.files = s.fs,
                                !.table_ser = s.self,
                                !.attrs = @ \cup {"_table_ser"}],
          out |-> Ok(<<>>)]

\* the second half of TableIndexer.index: the TableSerializer is made with the
\* default compress=True, its constructor validating the schema with outcome v
SerializeTable(self, df, v) ==
    IF v.kind # "ok" THEN [self |-> self, out |-> v]
    ELSE KeepSerializer(self,
            serialize(TableSerializer(self.schema, self.variable_length_columns, TRUE),
                      self.files, FrameCodePoints(df)))

\* TableIndexer.index(df, index_cols, metadata_cols, path): [self, out]
TableIndexer_index(self, df, index_cols) ==
    SerializeTable(BuildIndices([self EXCEPT !.attrs = @ \cup {"indices"}, !.indices = <<>>],
                                df, index_cols, 1),
                   df,
                   validate_schema_structure(self.schema, self.variable_length_columns))

\* row_ids = self.indices[col].search(query), with outcome r, then the columns
\* after the k-th
RECURSIVE SearchColumns(_, _, _, _)
NextColumn(self, query, k, r) ==
    IF r.kind # "ok" THEN r ELSE SearchColumns(self, query, k + 1, r.val)

\* the loop of TableIndexer.search from the k-th index on: row_ids is what the
\* search of the column before returned; res, which collects them all, is not
\* used after the loop
SearchColumns(self, query, k, row_ids) ==
    IF k > Len(self.indices) THEN Ok(row_ids)
    ELSE NextColumn(self, query, k,
                    search(self.indices[k][2], Get(self.folders, self.indices[k][1]), query))

\* return self._table_ser.read_rows_parallel(row_ids), with outcome r
ReturnRows(self, r) == [self |-> [self EXCEPT !.table_ser = r.self], out |-> r.out]

\* the end of TableIndexer.search, the loop over the indices having ended with
\* outcome ids: the rows are read by the row numbers in row_ids, the result of
\* the last column; without an index row_ids is not bound
ReadFound(self, ids) ==
    IF ids.kind # "ok" THEN [self |-> self, out |-> ids]
    ELSE IF self.indices = <<>> THEN [self |-> self, out |-> Raise("UnboundLocalError")]
    ELSE IF "_table_ser" \notin self.attrs THEN [self |-> self, out |-> Raise("AttributeError")]
    ELSE ReturnRows(self, read_rows_parallel(self.table_ser, self.files, ids.val))

\* TableIndexer.search(query): [self, out]
TableIndexer_search(self, query) ==
    IF "indices" \notin self.attrs THEN [self |-> self, out |-> Raise("AttributeError")]
    ELSE ReadFound(self, SearchColumns(self, query, 1, <<>>))

\* the texts of a cell: one word, or two
Cells == {<<"a">>, <<"B">>, <<"a", " ", "B">>}

\* the tables handed to TableIndexer.index: two text columns, up to MaxRows rows
IndexedFrames ==
    {[columns |-> {"title", "body"}, rows |-> r] :
        r \in UNION {[1..k -> {[title |-> t, body |-> b] : t \in Cells, b \in Cells}] :
                        k \in 0..MaxRows}}

\* index_cols: both columns in either order, one column, none
IndexCols == {<<"title", "body">>, <<"body", "title">>, <<"title">>, <<>>}

\* TableIndexer(path, {'title': 'str', 'body': 'str'}, ['title', 'body'])
ConstructIndexer ==
    /\ pc = "idle"
    /\ tix.attrs = {}
    /\ tix' = TableIndexer(<<<<"title", "str">>, <<"body", "str">>>>, <<"title", "body">>)
    /\ ret' = Returned("TableIndexer", "tix", <<>>, Ok(<<>>))
    /\ pc' = "returned"
    /\ UNCHANGED <<ivars, ts, rfs, table, wrote, par>>

\* the call has ended with r: the instance is left as the call left it
IndexTableReturns(df, index_cols, r) ==
    /\ tix' = [r.self EXCEPT !.df = df]
    /\ ret' = Returned("TableIndexer.index", "tix", index_cols, r.out)

SearchTableReturns(query, r) ==
    /\ tix' = r.self
    /\ ret' = Returned("TableIndexer.search", "tix", query, r.out)

\* tix.index(df, index_cols, metadata_cols, path): one table per run
IndexTable(df, index_cols) ==
    /\ pc = "idle"
    /\ tix.attrs = {"schema"}
    /\ IndexTableReturns(df, index_cols, TableIndexer_index(tix, df, index_cols))
    /\ pc' = "returned"
    /\ UNCHANGED <<ivars, ts, rfs, table, wrote, par>>

\* tix.search(query)
SearchTable(query) ==
    /\ pc = "idle"
    /\ tix.attrs # {}
    /\ SearchTableReturns(query, TableIndexer_search(tix, query))
    /\ pc' = "returned"
    /\ UNCHANGED <<ivars, ts, rfs, table, wrote, par>>

NextTix ==
    \/ ConstructIndexer
    \/ pc = "idle" /\ \E df \in IndexedFrames, index_cols \in IndexCols : IndexTable(df, index_cols)
    \/ pc = "idle" /\ \E q \in Queries : SearchTable(q)
    \/ Consume

\* one TableIndexer: a table indexed, then searches
SpecTix == Init /\ [][NextTix]_vars

\* the columns that have an inverted index
IndexedColumns == Range(Keys(tix.indices))

\* the tokens of one column of the table indexed
ColumnVocabulary(col) == UNION {TokensOf(tix.df.rows[n][col]) : n \in 1..Len(tix.df.rows)}

\* the row numbers whose text in col has every token of the query
ColumnMatches(col, query) ==
    {n \in 0..(Len(tix.df.rows) - 1) : TokensOf(query) \subseteq TokensOf(tix.df.rows[n + 1][col])}

\* C15: TableIndexer.search(query) returns the rows whose numbers are in the
\* union, over the indexed columns, of the column's AND-match set: a row matched
\* in any indexed column is returned, not only those matched in the last one.
C15_SearchReturnsUnionOfColumns ==
    (/\ pc = "returned"
     /\ ret.op = "TableIndexer.search"
     /\ "_table_ser" \in tix.attrs
     /\ IndexedColumns # {}
     /\ TokensOf(ret.arg) # {}
     /\ \A col \in IndexedColumns : TokensOf(ret.arg) \subseteq ColumnVocabulary(col))
        => /\ ret.kind = "ok"
           /\ Range(ret.val) =
                {RowCodePoints(tix.df.rows[n + 1]) :
                    n \in UNION {ColumnMatches(col, ret.arg) : col \in IndexedColumns}}

-----------------------------------------------------------------------------
(* tokenizers.py called on its own *)

\* the words of the documents handed to the tokenizer functions: three tokens
DocWords == Words \cup {<<"a", "B">>}

\* the documents of exactly n of these words, a blank between two words
RECURSIVE DocTexts(_)
DocTexts(n) ==
    IF n = 0 THEN {<<>>}
    ELSE IF n = 1 THEN DocWords
    ELSE {w \o <<" ">> \o t : w \in DocWords, t \in DocTexts(n - 1)}

\* the sequences of exactly k documents with at most n words in all
RECURSIVE DocColls(_, _)
DocColls(k, n) ==
    IF k = 0 THEN {<<>>}
    ELSE UNION {UNION {{<<t>> \o c : c \in DocColls(k - 1, n - m)} : t \in DocTexts(m)} :
                m \in 0..n}

Documents == UNION {DocColls(k, MaxCorpusWords) : k \in 0..MaxDocs}

\* build_word2pos(d)
BuildWord2pos(d) ==
    /\ pc = "idle"
    /\ docs' = d
    /\ ret' = Returned("build_word2pos", "tokenizers", d, Ok(build_word2pos(d)))
    /\ pc' = "returned"
    /\ UNCHANGED <<built, written, dirExists, fs, idx, hnd, rvars>>

\* build_document_tuples(d, build_word2pos(d))
BuildDocumentTuples(d) ==
    /\ pc = "idle"
    /\ docs' = d
    /\ ret' = Returned("build_document_tuples", "tokenizers", d,
                       Ok(build_document_tuples(d, build_word2pos(d))))
    /\ pc' = "returned"
    /\ UNCHANGED <<built, written, dirExists, fs, idx, hnd, rvars>>

\* one document sequence per run, which both builders may be given again
DocumentsOfRun == IF docs = <<>> THEN Documents ELSE {docs}

NextTok ==
    \/ pc = "idle" /\ \E d \in DocumentsOfRun : BuildWord2pos(d)
    \/ pc = "idle" /\ \E d \in DocumentsOfRun : BuildDocumentTuples(d)
    \/ Consume

\* the two builders of tokenizers.py applied to document sequences
SpecTok == Init /\ [][NextTok]_vars

\* the tokens of all documents, in the order of the document stream
TokenStream == Flatten([i \in 1..Len(docs) |-> tokenizer_func(docs[i])])

\* the place in the stream where term is seen first
FirstSeen(term) ==
    CHOOSE i \in 1..Len(TokenStream) :
        TokenStream[i] = term /\ \A j \in 1..(i - 1) : TokenStream[j] # term

\* the occurrences of term in the documents from Doc ID d on
RECURSIVE TotalOccurrences(_, _)
TotalOccurrences(term, d) ==
    IF d >= Len(docs) THEN 0 ELSE Occurrences(term, d) + TotalOccurrences(term, d + 1)

ReturnedBuilder(op) == pc = "returned" /\ ret.op = op

\* C16: build_word2pos gives the n distinct lower-cased tokens of the document
\* sequence the Term IDs 0..n-1, one each (a bijection), in the order in which
\* the tokens are first seen in the document stream; an empty document sequence
\* gives an empty vocabulary and an empty tuple sequence without error.
C16_TermIdsDenseInFirstSeenOrder ==
    /\ ReturnedBuilder("build_word2pos")
        => /\ ret.kind = "ok"
           /\ Range(Keys(ret.val)) = Vocabulary
           /\ Len(ret.val) = Cardinality(Vocabulary)
           /\ {Get(ret.val, t) : t \in Vocabulary} = 0..(Cardinality(Vocabulary) - 1)
           /\ \A t, u \in Vocabulary :
                Get(ret.val, t) < Get(ret.val, u) <=> FirstSeen(t) < FirstSeen(u)
           /\ docs = <<>> => ret.val = <<>>
    /\ (ReturnedBuilder("build_document_tuples") /\ docs = <<>>)
        => ret.kind = "ok" /\ ret.val.tuples = <<>>

\* C16's case: three distinct tokens over two documents, first seen in an
\* order that is not the alphabetical one
C16_Witness ==
    /\ ReturnedBuilder("build_word2pos")
    /\ Len(ret.val) = 3
    /\ ret.val[1][1] = <<"b">>
    /\ Len(docs) = 2

\* C17: build_document_tuples gives every term of the vocabulary, and nothing
\* else, a document frequency and a word frequency: the document frequency is
\* the number of distinct documents that contain the term, the word frequency
\* the number of its occurrences over all documents.
C17_FrequenciesCountDocsAndOccurrences ==
    ReturnedBuilder("build_document_tuples")
        => /\ ret.kind = "ok"
           /\ Range(Keys(ret.val.document_frequencies)) = Vocabulary
           /\ Len(ret.val.document_frequencies) = Cardinality(Vocabulary)
           /\ Range(Keys(ret.val.word_freq)) = Vocabulary
           /\ Len(ret.val.word_freq) = Cardinality(Vocabulary)
           /\ \A t \in Vocabulary :
                /\ Get(ret.val.document_frequencies, t) = Cardinality(DocsWith(t))
                /\ Get(ret.val.word_freq, t) = TotalOccurrences(t, 0)

\* C17's case: a term of two documents that occurs twice in one of them
C17_Witness ==
    /\ ReturnedBuilder("build_document_tuples")
    /\ \E t \in Vocabulary :
        /\ Get(ret.val.document_frequencies, t) = 2
        /\ Get(ret.val.word_freq, t) = 3

\* the columns listed as variable-length whose schema format is not 'str'
ListedNotStr(sc) ==
    {c \in Range(sc.variable_length_columns) : Has(sc.schema, c) /\ Get(sc.schema, c) # "str"}

\* the columns not listed as variable-length whose schema format is 'str'
UnlistedStr(sc) ==
    {c \in Range(Keys(sc.schema)) \ Range(sc.variable_length_columns) :
        Get(sc.schema, c) = "str"}

\* C18: constructing a TableSerializer raises ValueError naming the column
\* when a column listed as variable-length has a format other than 'str' or a
\* column not listed has the format 'str', and it does so in the constructor:
\* no instance is made and no file has been opened or written.
C18_BadSchemaFailsInConstructor ==
    (/\ pc = "returned"
     /\ ret.op = "TableSerializer"
     /\ ListedNotStr(ret.arg) \cup UnlistedStr(ret.arg) # {})
        => /\ ret.kind = "ValueError"
           /\ ret.val[1] \in ListedNotStr(ret.arg) \cup UnlistedStr(ret.arg)
           /\ ~ts.exists
           /\ rfs = <<>>

\* C18's case: a schema with a column of each kind of error
C18_Witness ==
    /\ pc = "returned"
    /\ ret.op = "TableSerializer"
    /\ ListedNotStr(ret.arg) # {}
    /\ UnlistedStr(ret.arg) # {}
    /\ ret.kind = "ValueError"

\* the byte at which row number n of the table written last starts in a blob
\* of variable-length columns
RowOffset(n) == Len(Flatten([i \in 1..n |-> PackVars(ts, table.rows[i])]))

\* C19: after a serialize call that succeeded, the cached record_offsets list,
\* which the reads that follow use, equals the offset index file and has one
\* entry per row of the blob just written, entry N the byte at which row N
\* starts.
C19_CachedOffsetsAreThoseOfTheFile ==
    (pc = "returned" /\ ret.op = "serialize" /\ ret.kind = "ok")
        => /\ ts.record_offsets = ParseOffsets(rfs["idx"])
           /\ Len(ts.record_offsets) = Len(table.rows)
           /\ \A n \in 1..Len(table.rows) : ts.record_offsets[n] = RowOffset(n - 1)

\* the Term IDs of the vocabulary of the instance
TermIdsOf(self) == {self.word2pos[i][2] : i \in 1..Len(self.word2pos)}

\* C20: on an index built by index(docs), for every Term ID of its vocabulary,
\* get_tuples_for_term_id and get_tuples_for_term_id_slow return the same
\* posting list: the two ways of finding the end of the byte span agree.
C20_SlowLookupAgrees ==
    /\ (/\ ReturnedOnIndex("get_tuples_for_term_id_slow")
        /\ ret.arg \in TermIdsOf(Instance(ret.on)))
           => /\ ret.kind = "ok"
              /\ get_tuples_for_term_id(Instance(ret.on), fs, ret.arg)
                    = [kind |-> ret.kind, val |-> ret.val]
    /\ (/\ ReturnedOnIndex("get_tuples_for_term_id")
        /\ ret.arg \in TermIdsOf(Instance(ret.on)))
           => /\ ret.kind = "ok"
              /\ get_tuples_for_term_id_slow(Instance(ret.on), fs, ret.arg)
                    = [kind |-> ret.kind, val |-> ret.val]

\* C20's case: the key-scanning lookup of a term that is not the last of two,
\* its span ending where the next term's begins
C20_Witness ==
    /\ ReturnedOnIndex("get_tuples_for_term_id_slow")
    /\ Len(Instance(ret.on).word2pos) = 2
    /\ ret.arg = 0
    /\ ret.kind = "ok"
    /\ Len(ret.val) = 2

\* the record of one row: its fixed-length part, then its variable-length fields
RecordOf(self, row) == PackFixed(self, row) \o PackVars(self, row)

\* the row blob of a table
BlobOf(self, rows) == Flatten([i \in 1..Len(rows) |-> RecordOf(self, rows[i])])

\* the offset index of a table: entry N the byte at which row N starts
OffsetsOf(self, rows) ==
    [n \in 1..Len(rows) |-> Len(BlobOf(self, SubSeq(rows, 1, n - 1)))]

\* the two files and the cached offsets of self all describe the whole of df
DescribesTable(self, files, df) ==
    /\ Range(Keys(self.schema)) \subseteq df.columns
    /\ "bin" \in DOMAIN files
    /\ files["bin"] = BlobOf(self, df.rows)
    /\ ParseOffsets(files["idx"]) = OffsetsOf(self, df.rows)
    /\ self.record_offsets = OffsetsOf(self, df.rows)

\* C21: whenever a serialize call ends, by returning or by raising, the row
\* blob file, the offset index file and the cached offset list either all
\* describe the complete table passed to the call or are all as they were
\* before it: no offset entry is left without its fully written row.
C21_SerializeAllOrNothing ==
    [][(/\ pc = "idle"
        /\ pc' = "returned"
        /\ ret'.op = "serialize")
           => \/ DescribesTable(ts', rfs', ret'.arg)
              \/ rfs' = rfs /\ ts'.record_offsets = ts.record_offsets]_vars

====
